---- MODULE Spec2Model ----
(***************************************************************************)
(* Model of the dacx0501 driver (src/src/lib.rs): the DAC80501 / DAC70501  *)
(* / DAC60501 controllers generated by the Dac! macro, their 3-byte frame  *)
(* buffer, their shadow configuration and the SPI operations they issue.   *)
(***************************************************************************)
EXTENDS Integers, Sequences, FiniteSets

VARIABLES
    variant,    \* which Dac! instantiation this controller is
    data,       \* self.data: [u8; 3]
    dac_state,  \* self.dac_state: DacState {config, gain}
    dev,        \* the chip's CONFIG and GAIN registers (what the wire delivered)
    bus,        \* the SPI operations issued by the most recent call, in order
    call,       \* the most recent call: operation and argument
    result,     \* what the most recent call returned
    requested,  \* per field, the value most recently passed to its setter
    was_ones    \* the buffer held 0xFF in all three bytes when that call began

vars == <<variant, data, dac_state, dev, bus, call, result, requested, was_ones>>

---------------------------------------------------------------------------
(* Command: the register codes of the Deref impl.                          *)
NOOP == 0
DEVID == 1
SYNC == 2

\* Mutant: CONFIG given the code of SYNC, whose bit pattern it shares in the
\* register table of the doc comment.
CONFIG_AsSync == SYNC

CONFIG == 3
GAIN == 4
TRIGGER == 5
STATUS == 7
DACDATA == 8

Commands == <<NOOP, DEVID, SYNC, CONFIG, GAIN, TRIGGER, STATUS, DACDATA>>

---------------------------------------------------------------------------
(* The three instantiations of Dac! and the bit width each is given.       *)
Variants == {"Dac80501", "Dac70501", "Dac60501"}

\* The variants instantiated through the `$Name, $bits` arm of the macro.
BitsVariants == {"Dac70501", "Dac60501"}

bits(v) == IF v = "Dac70501" THEN 14 ELSE IF v = "Dac60501" THEN 12 ELSE 16

\* The public operations each macro arm generates for a variant.
Operations(v) ==
    {"set_output_level", "set_internal_reference", "set_power_state",
     "set_reference_divider", "set_output_gain", "ref_alarm_status"}
    \cup (IF v \in BitsVariants THEN {"set_output_level_unckecked"} ELSE {})

---------------------------------------------------------------------------
(* Input domains.                                                          *)
Byte == 0..255

\* u16 levels: the corners of every bit width, and levels beyond a width
\* with and without the width's own bit set.
Levels == {0, 1, 255, 256, 4095, 4096, 8192, 12288, 16383, 16384,
           32768, 49152, 65535}

\* Bytes a status read may put in the buffer: the low values up to
\* MaxRxByte, and the all-ones byte.
MaxRxByte == 2

RxBytes == (0..MaxRxByte) \cup {255}

\* The word an SPI bus clocks out on MOSI while reading.
FillWords == {0, 255}

InternRefState == {"Disable", "Enable"}
PowerState == {"On", "Off"}
RefDivState == {"Half", "OneX"}
GainState == {"TwoX", "OneX"}

---------------------------------------------------------------------------
(* Pure helpers.                                                           *)

\* `level as u32 & (1u32 << $bits) > 0`
BitSet(level, b) == (level \div (2 ^ b)) % 2 = 1

\* The guard of set_output_level: only the `$Name, $bits` arm has one.
Overflows(v, level) == v \in BitsVariants /\ BitSet(level, bits(v))

\* Mutant: the two bytes in little-endian order.
to_le_bytes(level) == <<level % 256, level \div 256>>

\* u16::to_be_bytes
to_be_bytes(level) == <<level \div 256, level % 256>>

\* `matches!(..) as u8`
AsU8(b) == IF b THEN 1 ELSE 0

\* Mutant: both flags packed into the low bits of the last payload byte.
DacConfig_to_array_Packed(config) ==
    <<0, AsU8(config.ref_pwdwn = "Disable") + 2 * AsU8(config.dac_pwdwn = "Off")>>

\* DacConfig::to_array
DacConfig_to_array(config) ==
    <<AsU8(config.ref_pwdwn = "Disable"), AsU8(config.dac_pwdwn = "Off")>>

\* Mutant: the gain flag is ignored, so OneX and TwoX serialize alike.
GainConfig_to_array_GainLost(gain) == <<AsU8(gain.ref_div = "Half"), 1>>

\* GainConfig::to_array
GainConfig_to_array(gain) ==
    <<AsU8(gain.ref_div = "Half"), AsU8(gain.buff_gain = "TwoX")>>

\* Mutant: the gain defaults to the enum's other variant.
DacState_default_GainOneX ==
    [config |-> [ref_pwdwn |-> "Enable", dac_pwdwn |-> "On"],
     gain   |-> [ref_div |-> "OneX", buff_gain |-> "OneX"]]

\* DacState::default()
DacState_default ==
    [config |-> [ref_pwdwn |-> "Enable", dac_pwdwn |-> "On"],
     gain   |-> [ref_div |-> "OneX", buff_gain |-> "TwoX"]]

\* `self.data[0] = cmd; self.data[1..].copy_from_slice(payload)`
Frame(cmd, payload) == <<cmd>> \o payload

---------------------------------------------------------------------------
(* The SPI device.                                                         *)

\* What the chip does with a frame it has received: CONFIG and GAIN writes
\* replace the register, every other command leaves both alone.
Latch(d, frame) ==
    IF frame[1] = CONFIG THEN [d EXCEPT !.config = SubSeq(frame, 2, 3)]
    ELSE IF frame[1] = GAIN THEN [d EXCEPT !.gain = SubSeq(frame, 2, 3)]
    ELSE d

\* Mutant: a transport error is swallowed and the call reports success.
DacError_from_Swallowed(e) == "Ok"

\* `DacError::from`: both From impls of the crate return DacError::SpiError,
\* whatever the transport's error value is.
DacError_from(e) == "SpiError"

\* Mutant: a failed write is attempted a second time.
SpiWrite_Retry(frame, ok) ==
    /\ bus' = IF ok
              THEN <<[op |-> "write", buf |-> frame, mosi |-> frame, ok |-> TRUE]>>
              ELSE <<[op |-> "write", buf |-> frame, mosi |-> frame, ok |-> FALSE],
                     [op |-> "write", buf |-> frame, mosi |-> frame, ok |-> FALSE]>>
    /\ dev' = IF ok THEN Latch(dev, frame) ELSE dev
    /\ result' = IF ok THEN "Ok" ELSE "SpiError"

\* `self.spi.write(&self.data).map_err(DacError::from)?`: one write of the
\* buffer; the chip receives it only when the transport reports success.
SpiWrite(frame, ok) ==
    /\ bus' = <<[op |-> "write", buf |-> frame, mosi |-> frame, ok |-> ok]>>
    /\ dev' = IF ok THEN Latch(dev, frame) ELSE dev
    /\ result' = IF ok THEN "Ok" ELSE DacError_from("transport error")

\* `self.spi.read(&mut self.data).map_err(DacError::from)?`: one read; the
\* bus clocks out its fill word, never the buffer it was handed, and stores
\* what came in over the buffer.
SpiRead(buf, fill, rx, ok) ==
    /\ bus' = <<[op |-> "read", buf |-> buf, mosi |-> <<fill, fill, fill>>,
                 ok |-> ok]>>
    /\ dev' = dev
    /\ data' = rx

---------------------------------------------------------------------------
(* new(spi)                                                                *)
Init ==
    /\ variant \in Variants
    /\ data = <<0, 0, 0>>
    /\ dac_state = DacState_default
    /\ dev = [config |-> <<0, 0>>, gain |-> <<0, 1>>]
    /\ bus = <<>>
    /\ call = [op |-> "new", arg |-> "none"]
    /\ result = "none"
    /\ requested = DacState_default
    /\ was_ones = FALSE

---------------------------------------------------------------------------
(* The level writes.                                                       *)

\* Mutant: only the command byte and the low byte are stored; the high-byte
\* slot keeps what the buffer held.
WriteLevel_LowByteOnly(level, ok) ==
    /\ data' = <<DACDATA, data[2], to_be_bytes(level)[2]>>
    /\ SpiWrite(data', ok)
    /\ UNCHANGED <<variant, dac_state, requested>>

\* The body shared by every level write once it is past its guard.
WriteLevel(level, ok) ==
    /\ data' = Frame(DACDATA, to_be_bytes(level))
    /\ SpiWrite(data', ok)
    /\ UNCHANGED <<variant, dac_state, requested>>

\* Mutant: the command byte is stored before the bounds check.
set_output_level_EarlyStore(level, ok) ==
    /\ call' = [op |-> "set_output_level", arg |-> level]
    /\ was_ones' = (data = <<255, 255, 255>>)
    /\ IF Overflows(variant, level)
       THEN /\ result' = "ValueOverflow"
            /\ bus' = <<>>
            /\ data' = [data EXCEPT ![1] = DACDATA]
            /\ UNCHANGED <<variant, dac_state, dev, requested>>
       ELSE WriteLevel(level, ok)

set_output_level(level, ok) ==
    /\ call' = [op |-> "set_output_level", arg |-> level]
    /\ was_ones' = (data = <<255, 255, 255>>)
    /\ IF Overflows(variant, level)
       THEN /\ result' = "ValueOverflow"
            /\ bus' = <<>>
            /\ UNCHANGED <<variant, data, dac_state, dev, requested>>
       ELSE WriteLevel(level, ok)

\* Mutant: the unchecked write checks the bounds after all.
set_output_level_unckecked_Checked(level, ok) ==
    /\ "set_output_level_unckecked" \in Operations(variant)
    /\ call' = [op |-> "set_output_level_unckecked", arg |-> level]
    /\ was_ones' = (data = <<255, 255, 255>>)
    /\ IF Overflows(variant, level)
       THEN /\ result' = "ValueOverflow"
            /\ bus' = <<>>
            /\ UNCHANGED <<variant, data, dac_state, dev, requested>>
       ELSE WriteLevel(level, ok)

set_output_level_unckecked(level, ok) ==
    /\ "set_output_level_unckecked" \in Operations(variant)
    /\ call' = [op |-> "set_output_level_unckecked", arg |-> level]
    /\ was_ones' = (data = <<255, 255, 255>>)
    /\ WriteLevel(level, ok)

---------------------------------------------------------------------------
(* The configuration setters.                                              *)

WriteConfig(ok) ==
    /\ data' = Frame(CONFIG, DacConfig_to_array(dac_state'.config))
    /\ SpiWrite(data', ok)
    /\ UNCHANGED variant

\* Mutant: the frame is built from the group as it was before the assignment.
WriteGain_Stale(ok) ==
    /\ data' = Frame(GAIN, GainConfig_to_array(dac_state.gain))
    /\ SpiWrite(data', ok)
    /\ UNCHANGED variant

WriteGain(ok) ==
    /\ data' = Frame(GAIN, GainConfig_to_array(dac_state'.gain))
    /\ SpiWrite(data', ok)
    /\ UNCHANGED variant

\* Mutant: only the setter's own field is sent, the other one as its default.
set_internal_reference_OwnFieldOnly(intern_ref, ok) ==
    /\ call' = [op |-> "set_internal_reference", arg |-> intern_ref]
    /\ was_ones' = (data = <<255, 255, 255>>)
    /\ requested' = [requested EXCEPT !.config.ref_pwdwn = intern_ref]
    /\ dac_state' = [dac_state EXCEPT !.config.ref_pwdwn = intern_ref]
    /\ data' = Frame(CONFIG, DacConfig_to_array(
                   [DacState_default.config EXCEPT !.ref_pwdwn = intern_ref]))
    /\ SpiWrite(data', ok)
    /\ UNCHANGED variant

set_internal_reference(intern_ref, ok) ==
    /\ call' = [op |-> "set_internal_reference", arg |-> intern_ref]
    /\ was_ones' = (data = <<255, 255, 255>>)
    /\ requested' = [requested EXCEPT !.config.ref_pwdwn = intern_ref]
    /\ dac_state' = [dac_state EXCEPT !.config.ref_pwdwn = intern_ref]
    /\ WriteConfig(ok)

\* Mutant: a failed write rolls the field back.
set_power_state_Rollback(state, ok) ==
    /\ call' = [op |-> "set_power_state", arg |-> state]
    /\ was_ones' = (data = <<255, 255, 255>>)
    /\ requested' = [requested EXCEPT !.config.dac_pwdwn = state]
    /\ dac_state' = IF ok THEN [dac_state EXCEPT !.config.dac_pwdwn = state]
                          ELSE dac_state
    /\ data' = Frame(CONFIG, DacConfig_to_array(
                   [dac_state.config EXCEPT !.dac_pwdwn = state]))
    /\ SpiWrite(data', ok)
    /\ UNCHANGED variant

set_power_state(state, ok) ==
    /\ call' = [op |-> "set_power_state", arg |-> state]
    /\ was_ones' = (data = <<255, 255, 255>>)
    /\ requested' = [requested EXCEPT !.config.dac_pwdwn = state]
    /\ dac_state' = [dac_state EXCEPT !.config.dac_pwdwn = state]
    /\ WriteConfig(ok)

\* Mutant: the gain group is rebuilt from its default around the new divider.
set_reference_divider_ResetsGain(ref_div, ok) ==
    /\ call' = [op |-> "set_reference_divider", arg |-> ref_div]
    /\ was_ones' = (data = <<255, 255, 255>>)
    /\ requested' = [requested EXCEPT !.gain.ref_div = ref_div]
    /\ dac_state' = [dac_state EXCEPT
                        !.gain = [DacState_default.gain EXCEPT !.ref_div = ref_div]]
    /\ WriteGain(ok)

set_reference_divider(ref_div, ok) ==
    /\ call' = [op |-> "set_reference_divider", arg |-> ref_div]
    /\ was_ones' = (data = <<255, 255, 255>>)
    /\ requested' = [requested EXCEPT !.gain.ref_div = ref_div]
    /\ dac_state' = [dac_state EXCEPT !.gain.ref_div = ref_div]
    /\ WriteGain(ok)

\* Mutant: once the gain is OneX the setter refuses to go back to TwoX.
set_output_gain_NoReturn(gain, ok) ==
    /\ ~(dac_state.gain.buff_gain = "OneX" /\ gain = "TwoX")
    /\ call' = [op |-> "set_output_gain", arg |-> gain]
    /\ was_ones' = (data = <<255, 255, 255>>)
    /\ requested' = [requested EXCEPT !.gain.buff_gain = gain]
    /\ dac_state' = [dac_state EXCEPT !.gain.buff_gain = gain]
    /\ WriteGain(ok)

set_output_gain(gain, ok) ==
    /\ call' = [op |-> "set_output_gain", arg |-> gain]
    /\ was_ones' = (data = <<255, 255, 255>>)
    /\ requested' = [requested EXCEPT !.gain.buff_gain = gain]
    /\ dac_state' = [dac_state EXCEPT !.gain.buff_gain = gain]
    /\ WriteGain(ok)

---------------------------------------------------------------------------
(* The status read.                                                        *)

\* Mutant: any nonzero byte counts as an alarm.
AlarmOf_NonZero(buf) == IF buf[3] # 0 THEN "High" ELSE "Low"

\* The decode at the end of ref_alarm_status.
AlarmOf(buf) == IF buf[3] = 1 THEN "High" ELSE "Low"

ref_alarm_status(fill, rx, ok) ==
    /\ call' = [op |-> "ref_alarm_status", arg |-> "none"]
    /\ was_ones' = (data = <<255, 255, 255>>)
    /\ SpiRead(Frame(STATUS, <<0, 0>>), fill, rx, ok)
    /\ result' = IF ok THEN AlarmOf(data') ELSE DacError_from("transport error")
    /\ UNCHANGED <<variant, dac_state, requested>>

---------------------------------------------------------------------------
\* What a read may leave in the buffer: sampled responses, or (a read that
\* stored nothing) the bytes the buffer already held.
Responses ==
    {<<h, h, b>> : h \in FillWords, b \in RxBytes} \cup {Frame(STATUS, <<0, 0>>)}

\* Every third byte a response can carry.
AllResponses == {<<h, h, b>> : h \in FillWords, b \in Byte}

Next ==
    \/ \E level \in Levels, ok \in BOOLEAN : set_output_level(level, ok)
    \/ \E level \in Levels, ok \in BOOLEAN : set_output_level_unckecked(level, ok)
    \/ \E s \in InternRefState, ok \in BOOLEAN : set_internal_reference(s, ok)
    \/ \E s \in PowerState, ok \in BOOLEAN : set_power_state(s, ok)
    \/ \E s \in RefDivState, ok \in BOOLEAN : set_reference_divider(s, ok)
    \/ \E s \in GainState, ok \in BOOLEAN : set_output_gain(s, ok)
    \/ \E fill \in FillWords, rx \in Responses, ok \in BOOLEAN :
           ref_alarm_status(fill, rx, ok)

Spec == Init /\ [][Next]_vars

\* The status read alone, over every value of the response's third byte.
NextStatus ==
    \E fill \in FillWords, rx \in AllResponses, ok \in BOOLEAN :
        ref_alarm_status(fill, rx, ok)

SpecStatus == Init /\ [][NextStatus]_vars

---------------------------------------------------------------------------
(* Vocabulary of the properties.                                           *)

ConfigSetters == {"set_internal_reference", "set_power_state"}
GainSetters == {"set_reference_divider", "set_output_gain"}
Setters == ConfigSetters \cup GainSetters

\* The one transport operation of the most recent call was a write of f.
WroteIn(b, f) == Len(b) = 1 /\ b[1].op = "write" /\ b[1].mosi = f

Wrote(f) == WroteIn(bus, f)

\* The value a setter's own field holds in state ds.
FieldOf(ds, op) ==
    CASE op = "set_internal_reference" -> ds.config.ref_pwdwn
      [] op = "set_power_state" -> ds.config.dac_pwdwn
      [] op = "set_reference_divider" -> ds.gain.ref_div
      [] op = "set_output_gain" -> ds.gain.buff_gain

\* The register bit that stands for value x of a setter's field.
BitOf(op, x) ==
    CASE op = "set_internal_reference" -> IF x = "Disable" THEN 1 ELSE 0
      [] op = "set_power_state" -> IF x = "Off" THEN 1 ELSE 0
      [] op = "set_reference_divider" -> IF x = "Half" THEN 1 ELSE 0
      [] op = "set_output_gain" -> IF x = "TwoX" THEN 1 ELSE 0

\* The bit the chip holds for a setter's field.
DevBit(d, op) ==
    CASE op = "set_internal_reference" -> d.config[1]
      [] op = "set_power_state" -> d.config[2]
      [] op = "set_reference_divider" -> d.gain[1]
      [] op = "set_output_gain" -> d.gain[2]

\* The in-memory state of a register group differs from what the chip holds.
ConfigDiverged(ds, d) ==
    \/ BitOf("set_internal_reference", ds.config.ref_pwdwn) # d.config[1]
    \/ BitOf("set_power_state", ds.config.dac_pwdwn) # d.config[2]

GainDiverged(ds, d) ==
    \/ BitOf("set_reference_divider", ds.gain.ref_div) # d.gain[1]
    \/ BitOf("set_output_gain", ds.gain.buff_gain) # d.gain[2]

Diverged(ds, d, op) ==
    IF op \in ConfigSetters THEN ConfigDiverged(ds, d) ELSE GainDiverged(ds, d)

---------------------------------------------------------------------------
\* C1: on every variant with bit width b, set_output_level(level) returns
\* ValueOverflow if and only if level >= 2^b (any bit at or above position b
\* set), and accepts every level below 2^b.
C1_OverflowIffAtLeastTwoPowBits ==
    call.op = "set_output_level" =>
        ((result = "ValueOverflow") <=> (call.arg >= 2 ^ bits(variant)))

\* C2: a set_output_level call that returns ValueOverflow has issued no
\* transport operation and leaves the frame buffer and the Device
\* Configuration (and so the chip) exactly as they were before the call.
C2_OverflowTouchesNothing ==
    [][(call'.op = "set_output_level" /\ result' = "ValueOverflow") =>
          /\ bus' = <<>>
          /\ data' = data
          /\ dac_state' = dac_state
          /\ dev' = dev]_vars

C2_Witness ==
    /\ call.op = "set_output_level"
    /\ variant = "Dac70501"
    /\ call.arg = 16384
    /\ result = "ValueOverflow"
    /\ data = <<4, 1, 1>>
    /\ dac_state.gain.ref_div = "Half"

\* C3: whenever set_output_level(level) passes the bounds check, the frame
\* handed to the transport's write is exactly [0x08, level div 256,
\* level mod 256].
C3_LevelFrame ==
    (call.op = "set_output_level" /\ result # "ValueOverflow") =>
        /\ Wrote(<<8, call.arg \div 256, call.arg % 256>>)
        /\ bus[1].buf = bus[1].mosi
        /\ bus[1].mosi[2] * 256 + bus[1].mosi[3] = call.arg

C3_Witness ==
    /\ variant = "Dac60501"
    /\ call = [op |-> "set_output_level", arg |-> 4095]
    /\ result = "Ok"
    /\ Wrote(<<8, 15, 255>>)

\* C4: ref_alarm_status performs one combined write-then-read transport
\* operation whose outgoing bytes are [0x07, 0, 0], so that the Status
\* command byte reaches the device before the response overwrites the buffer.
C4_StatusCommandGoesOut ==
    call.op = "ref_alarm_status" =>
        /\ Len(bus) = 1
        /\ bus[1].op = "transfer"
        /\ bus[1].mosi = <<7, 0, 0>>

\* C5: after any sequence of setter calls, failed ones included, every field
\* of the in-memory Device Configuration equals the value the device last
\* received for it, or the default if its register was never written.
C5_ShadowMatchesDevice ==
    /\ ~ConfigDiverged(dac_state, dev)
    /\ ~GainDiverged(dac_state, dev)

\* C6 as stated: when a configuration setter's write fails, its field holds
\* the requested value and the in-memory state differs from the device state.
C6_FailedSetterAlwaysDiverges ==
    (call.op \in Setters /\ result = "SpiError") =>
        /\ FieldOf(dac_state, call.op) = call.arg
        /\ Diverged(dac_state, dev, call.op)

\* C6 (amended): when a configuration setter's write fails, its field holds
\* the requested value, nothing is rolled back and the device is unchanged;
\* the in-memory state of the group then differs from the device state
\* whenever the requested value is not the one the device holds for that
\* field.  A difference in a group lasts through every call that is not a
\* setter of that group, and is gone once a write of that group succeeds.
C6_FailedSetterKeepsRequest ==
    [][/\ (call'.op \in Setters /\ result' = "SpiError") =>
            /\ FieldOf(dac_state', call'.op) = call'.arg
            /\ \A op \in Setters \ {call'.op} :
                   FieldOf(dac_state', op) = FieldOf(dac_state, op)
            /\ dev' = dev
            /\ (BitOf(call'.op, call'.arg) # DevBit(dev, call'.op)
                  => Diverged(dac_state', dev', call'.op))
       /\ (ConfigDiverged(dac_state, dev) /\ call'.op \notin ConfigSetters)
            => ConfigDiverged(dac_state', dev')
       /\ (GainDiverged(dac_state, dev) /\ call'.op \notin GainSetters)
            => GainDiverged(dac_state', dev')
       /\ (call'.op \in Setters /\ result' = "Ok")
            => ~Diverged(dac_state', dev', call'.op)]_vars

C6_Witness ==
    /\ call = [op |-> "set_power_state", arg |-> "Off"]
    /\ result = "SpiError"
    /\ dac_state.config.dac_pwdwn = "Off"
    /\ dev.config = <<0, 0>>

\* C7: the frame emitted by set_internal_reference or set_power_state is
\* [0x03, r, p] and the one emitted by set_reference_divider or
\* set_output_gain is [0x04, d, g], where r, p, d, g encode the value just
\* requested for the setter's own field and the most recently requested value
\* (or the default) of the other field of the group; set_power_state(Off)
\* followed by set_internal_reference(Disable) emits payload [1, 1].
C7_SetterFrames ==
    [][/\ call'.op \in ConfigSetters =>
            /\ FieldOf(requested', call'.op) = call'.arg
            /\ WroteIn(bus', <<3, BitOf("set_internal_reference",
                                requested'.config.ref_pwdwn),
                          BitOf("set_power_state",
                                requested'.config.dac_pwdwn)>>)
       /\ call'.op \in GainSetters =>
            /\ FieldOf(requested', call'.op) = call'.arg
            /\ WroteIn(bus', <<4, BitOf("set_reference_divider",
                                requested'.gain.ref_div),
                          BitOf("set_output_gain",
                                requested'.gain.buff_gain)>>)
       /\ (/\ call = [op |-> "set_power_state", arg |-> "Off"]
           /\ call' = [op |-> "set_internal_reference", arg |-> "Disable"])
            => WroteIn(bus', <<3, 1, 1>>)]_vars

C7_Witness ==
    /\ call = [op |-> "set_internal_reference", arg |-> "Disable"]
    /\ requested.config.dac_pwdwn = "Off"
    /\ Wrote(<<3, 1, 1>>)

\* C8: for every third byte 0..255 of the transport's response, a
\* ref_alarm_status call whose transport operation succeeds returns High if
\* and only if that byte equals 1, and Low otherwise.
C8_AlarmDecode ==
    (call.op = "ref_alarm_status" /\ Len(bus) = 1 /\ bus[1].ok) =>
        /\ result \in {"High", "Low"}
        /\ (result = "High") <=> (data[3] = 1)

C8_Witness ==
    /\ call.op = "ref_alarm_status"
    /\ bus[1].ok
    /\ data[3] = 255
    /\ result = "Low"

\* C9 as stated: every variant, the 16-bit one included, offers
\* set_output_level_unchecked, which never returns ValueOverflow and always
\* writes [0x08, high byte, low byte].
C9_EveryVariantOffersUnchecked ==
    /\ ENABLED set_output_level_unckecked(0, TRUE)
    /\ call.op = "set_output_level_unckecked" =>
           /\ result # "ValueOverflow"
           /\ Wrote(<<8, call.arg \div 256, call.arg % 256>>)

\* C9 (amended): the 14-bit and 12-bit variants offer
\* set_output_level_unchecked, which for every level never returns
\* ValueOverflow and always writes [0x08, high byte, low byte]; the 16-bit
\* variant offers no such operation, and its set_output_level, which has no
\* bounds check, behaves that way instead.
C9_UncheckedWrite ==
    /\ (ENABLED set_output_level_unckecked(0, TRUE))
           <=> variant \in {"Dac70501", "Dac60501"}
    /\ (\/ call.op = "set_output_level_unckecked"
        \/ (call.op = "set_output_level" /\ variant = "Dac80501")) =>
           /\ result # "ValueOverflow"
           /\ Wrote(<<8, call.arg \div 256, call.arg % 256>>)

C9_Witness ==
    /\ variant = "Dac60501"
    /\ call = [op |-> "set_output_level_unckecked", arg |-> 65535]
    /\ result = "Ok"
    /\ Wrote(<<8, 255, 255>>)

\* C10: every call of a public operation that is not rejected with
\* ValueOverflow performs exactly one transport operation, whether it
\* succeeds or fails; none issues a second one or retries after a failure.
C10_OneTransportOperation ==
    (call.op # "new" /\ result # "ValueOverflow") =>
        /\ Len(bus) = 1
        /\ bus[1].ok <=> (result # "SpiError")

C10_Witness ==
    /\ call.op = "set_output_gain"
    /\ result = "SpiError"
    /\ Len(bus) = 1
    /\ ~bus[1].ok

\* C11: in every operation (level write, the four configuration setters,
\* ref_alarm_status) a failure reported by the transport makes the call
\* return SpiError: never Ok, never an alarm value, never ValueOverflow.
C11_TransportFailureIsSpiError ==
    (\E i \in 1..Len(bus) : ~bus[i].ok) => result = "SpiError"

C11_Witness ==
    /\ call.op = "ref_alarm_status"
    /\ ~bus[1].ok
    /\ data[3] = 1
    /\ result = "SpiError"

\* The default value of a setter's field, as the data model names it.
DefaultArg(op) ==
    CASE op = "set_internal_reference" -> "Enable"
      [] op = "set_power_state" -> "On"
      [] op = "set_reference_divider" -> "OneX"
      [] op = "set_output_gain" -> "TwoX"

\* C12: on a freshly constructed controller the Device Configuration
\* serializes to config = [0, 0] (reference enabled, power on) and
\* gain = [0, 1] (divider OneX, gain TwoX) and the frame buffer is all zero;
\* a first setter call that requests a default value emits [0x03, 0, 0] or
\* [0x04, 0, 1].
C12_FreshController ==
    /\ [](call.op = "new" =>
            /\ data = <<0, 0, 0>>
            /\ DacConfig_to_array(dac_state.config) = <<0, 0>>
            /\ GainConfig_to_array(dac_state.gain) = <<0, 1>>
            /\ \A op \in Setters : FieldOf(dac_state, op) = DefaultArg(op))
    /\ [][(/\ call.op = "new"
           /\ call'.op \in Setters
           /\ call'.arg = DefaultArg(call'.op)) =>
             WroteIn(bus', IF call'.op \in ConfigSetters
                           THEN <<3, 0, 0>> ELSE <<4, 0, 1>>)]_vars

C12_Witness ==
    /\ call = [op |-> "set_output_gain", arg |-> "TwoX"]
    /\ Wrote(<<4, 0, 1>>)
    /\ \A op \in Setters : FieldOf(dac_state, op) = DefaultArg(op)
    /\ dev = [config |-> <<0, 0>>, gain |-> <<0, 1>>]

\* The two payload bytes of the frame the most recent call wrote, read as one
\* 16-bit register value in either byte order.
PayloadBE == bus[1].mosi[2] * 256 + bus[1].mosi[3]

PayloadLE == bus[1].mosi[3] * 256 + bus[1].mosi[2]

\* The two flags of the group the most recent setter call wrote, in the order
\* the data model lists them.
FirstFlag ==
    IF call.op \in ConfigSetters
    THEN BitOf("set_internal_reference", requested.config.ref_pwdwn)
    ELSE BitOf("set_reference_divider", requested.gain.ref_div)

SecondFlag ==
    IF call.op \in ConfigSetters
    THEN BitOf("set_power_state", requested.config.dac_pwdwn)
    ELSE BitOf("set_output_gain", requested.gain.buff_gain)

\* Register value v has the first flag at bit position i, the second at bit
\* position j, and every other bit zero.
FlagsAtBits(v, i, j) ==
    \A k \in 0..15 :
        BitSet(v, k) <=> ((k = i /\ FirstFlag = 1) \/ (k = j /\ SecondFlag = 1))

\* C13 as stated: in every Config and Gain frame the 2-byte payload carries
\* the first listed flag at bit 0 and the second listed flag at bit 1, every
\* other payload bit zero (whichever byte order the payload is read in).
C13_FlagsAtBitsZeroAndOne ==
    call.op \in Setters =>
        (FlagsAtBits(PayloadBE, 0, 1) \/ FlagsAtBits(PayloadLE, 0, 1))

\* C13 (amended): in every Config and Gain frame the 2-byte payload carries
\* the group's two flags one per byte: the first payload byte is the first
\* listed flag (0 or 1) and the second payload byte is the second listed
\* flag (0 or 1), that is bit 8 and bit 0 of the big-endian 16-bit payload,
\* with every other payload bit zero.
C13_FlagsOnePerByte ==
    call.op \in Setters =>
        /\ Len(bus) = 1 /\ bus[1].op = "write"
        /\ bus[1].mosi[1] = (IF call.op \in ConfigSetters THEN 3 ELSE 4)
        /\ bus[1].mosi[2] = FirstFlag
        /\ bus[1].mosi[3] = SecondFlag
        /\ FlagsAtBits(PayloadBE, 8, 0)

C13_Witness ==
    /\ call = [op |-> "set_power_state", arg |-> "Off"]
    /\ requested.config.ref_pwdwn = "Disable"
    /\ Wrote(<<3, 1, 1>>)
    /\ PayloadBE = 257

\* Reading a payload back into the flags it stands for.
DecodeConfig(p) ==
    [ref_pwdwn |-> IF p[1] = 1 THEN "Disable" ELSE "Enable",
     dac_pwdwn |-> IF p[2] = 1 THEN "Off" ELSE "On"]

DecodeGain(p) ==
    [ref_div |-> IF p[1] = 1 THEN "Half" ELSE "OneX",
     buff_gain |-> IF p[2] = 1 THEN "TwoX" ELSE "OneX"]

AllConfigs == [ref_pwdwn : InternRefState, dac_pwdwn : PowerState]

AllGains == [ref_div : RefDivState, buff_gain : GainState]

\* C14: the two serializations are injective over the reachable
\* configuration states: config payload [a, b] has a = 1 exactly when the
\* internal reference is Disable and b = 1 exactly when power is Off, gain
\* payload [c, d] has c = 1 exactly when the divider is Half and d = 1 exactly
\* when the gain is TwoX, so decoding any emitted payload recovers the flags
\* that produced it.
C14_SerializationRoundTrip ==
    /\ DecodeConfig(DacConfig_to_array(dac_state.config)) = dac_state.config
    /\ DecodeGain(GainConfig_to_array(dac_state.gain)) = dac_state.gain
    /\ \A c \in AllConfigs :
           DacConfig_to_array(c) = DacConfig_to_array(dac_state.config)
               => c = dac_state.config
    /\ \A g \in AllGains :
           GainConfig_to_array(g) = GainConfig_to_array(dac_state.gain)
               => g = dac_state.gain
    /\ (DacConfig_to_array(dac_state.config)[1] = 1)
           <=> (dac_state.config.ref_pwdwn = "Disable")
    /\ (DacConfig_to_array(dac_state.config)[2] = 1)
           <=> (dac_state.config.dac_pwdwn = "Off")
    /\ (GainConfig_to_array(dac_state.gain)[1] = 1)
           <=> (dac_state.gain.ref_div = "Half")
    /\ (GainConfig_to_array(dac_state.gain)[2] = 1)
           <=> (dac_state.gain.buff_gain = "TwoX")
    /\ DacConfig_to_array(dac_state.config) \in {0, 1} \X {0, 1}
    /\ GainConfig_to_array(dac_state.gain) \in {0, 1} \X {0, 1}
    /\ call.op \in ConfigSetters =>
           DecodeConfig(SubSeq(bus[1].mosi, 2, 3)) = dac_state.config
    /\ call.op \in GainSetters =>
           DecodeGain(SubSeq(bus[1].mosi, 2, 3)) = dac_state.gain

C14_Witness ==
    /\ call = [op |-> "set_output_gain", arg |-> "OneX"]
    /\ dac_state.gain = [ref_div |-> "Half", buff_gain |-> "OneX"]
    /\ dac_state.config = [ref_pwdwn |-> "Disable", dac_pwdwn |-> "Off"]
    /\ Wrote(<<4, 1, 0>>)

\* The configuration a setter call with value x leaves behind.
Assigned(ds, op, x) ==
    CASE op = "set_internal_reference" -> [ds EXCEPT !.config.ref_pwdwn = x]
      [] op = "set_power_state" -> [ds EXCEPT !.config.dac_pwdwn = x]
      [] op = "set_reference_divider" -> [ds EXCEPT !.gain.ref_div = x]
      [] op = "set_output_gain" -> [ds EXCEPT !.gain.buff_gain = x]

\* The values a setter accepts.
ArgsOf(op) ==
    CASE op = "set_internal_reference" -> InternRefState
      [] op = "set_power_state" -> PowerState
      [] op = "set_reference_divider" -> RefDivState
      [] op = "set_output_gain" -> GainState

AllDacStates == [config : AllConfigs, gain : AllGains]

\* Every setter call there is: the setter and its argument.
SetterCalls == UNION {{<<op, x>> : x \in ArgsOf(op)} : op \in Setters}

\* The configurations one more setter call leads to from those in S, each
\* call assigning its field as Assigned says.
OneMoreCall(S) ==
    S \cup {Assigned(ds, c[1], c[2]) : ds \in S, c \in SetterCalls}

\* The configurations at most four setter calls lead to from ds.
WithinFourCalls(ds) == OneMoreCall(OneMoreCall(OneMoreCall(OneMoreCall({ds}))))

\* Every setter call with either of its two values can be taken here,
\* whether the transport then succeeds or fails.
EverySetterPermitted ==
    \A ok \in BOOLEAN :
        /\ \A x \in InternRefState : ENABLED set_internal_reference(x, ok)
        /\ \A x \in PowerState : ENABLED set_power_state(x, ok)
        /\ \A x \in RefDivState : ENABLED set_reference_divider(x, ok)
        /\ \A x \in GainState : ENABLED set_output_gain(x, ok)

\* C15: starting from the default configuration every one of the sixteen
\* combinations of (internal reference, power state, reference divider,
\* output gain) is reachable by some sequence of setter calls, and from any
\* state every setter call with either of its two values is permitted.
\* Stated as: in every reachable state every setter call is permitted and
\* does what Assigned says, and four such calls lead from the state to each
\* of the sixteen combinations.
C15_AllCombinationsReachable ==
    /\ [](/\ EverySetterPermitted
          /\ dac_state \in AllDacStates
          /\ Cardinality(AllDacStates) = 16
          /\ WithinFourCalls(dac_state) = AllDacStates)
    /\ [][call'.op \in Setters =>
             dac_state' = Assigned(dac_state, call'.op, call'.arg)]_vars

C15_Witness ==
    /\ dac_state.config = [ref_pwdwn |-> "Disable", dac_pwdwn |-> "Off"]
    /\ dac_state.gain = [ref_div |-> "Half", buff_gain |-> "OneX"]
    /\ call = [op |-> "set_reference_divider", arg |-> "Half"]
    /\ result = "Ok"
    /\ EverySetterPermitted

\* The register an operation addresses, by its code.
RegisterOf(op) ==
    CASE op \in {"set_output_level", "set_output_level_unckecked"} -> 8
      [] op \in ConfigSetters -> 3
      [] op \in GainSetters -> 4
      [] op = "ref_alarm_status" -> 7

C17_SuccessfulWriteResynchronisesItsGroup ==
    [][/\ (call'.op \in ConfigSetters /\ result' = "Ok") =>
            /\ dev'.config = <<BitOf("set_internal_reference",
                                     dac_state'.config.ref_pwdwn),
                               BitOf("set_power_state",
                                     dac_state'.config.dac_pwdwn)>>
            /\ dev'.gain = dev.gain
            /\ GainDiverged(dac_state, dev) => GainDiverged(dac_state', dev')
       /\ (call'.op \in GainSetters /\ result' = "Ok") =>
            /\ dev'.gain = <<BitOf("set_reference_divider",
                                   dac_state'.gain.ref_div),
                             BitOf("set_output_gain",
                                   dac_state'.gain.buff_gain)>>
            /\ dev'.config = dev.config
            /\ ConfigDiverged(dac_state, dev)
                 => ConfigDiverged(dac_state', dev')]_vars

C17_Witness ==
    /\ call = [op |-> "set_reference_divider", arg |-> "Half"]
    /\ result = "Ok"
    /\ dac_state.gain = [ref_div |-> "Half", buff_gain |-> "OneX"]
    /\ dev.gain = <<1, 0>>
    /\ ConfigDiverged(dac_state, dev)

\* C18: each configuration setter changes only its own field of the Device
\* Configuration (the other field of its group and the other group are
\* unchanged), while set_output_level, set_output_level_unchecked and
\* ref_alarm_status leave all four fields unchanged, on success and on
\* failure.
C18_OnlyTheOwnFieldChanges ==
    [][/\ call'.op \in Setters =>
            \A op \in Setters \ {call'.op} :
                FieldOf(dac_state', op) = FieldOf(dac_state, op)
       /\ call'.op \in {"set_output_level", "set_output_level_unckecked",
                        "ref_alarm_status"} =>
            /\ dac_state' = dac_state
            /\ \A op \in Setters :
                   FieldOf(dac_state', op) = FieldOf(dac_state, op)]_vars

C18_Witness ==
    /\ call.op = "set_output_level_unckecked"
    /\ result = "SpiError"
    /\ dac_state.config = [ref_pwdwn |-> "Disable", dac_pwdwn |-> "Off"]
    /\ dac_state.gain = [ref_div |-> "Half", buff_gain |-> "OneX"]

\* The frame an operation's write carries, from the operation, its argument
\* and the Device Configuration alone.
FrameOf(op, arg, ds) ==
    CASE op \in {"set_output_level", "set_output_level_unckecked"} ->
             <<8, arg \div 256, arg % 256>>
      [] op \in ConfigSetters ->
             <<3, BitOf("set_internal_reference", ds.config.ref_pwdwn),
                  BitOf("set_power_state", ds.config.dac_pwdwn)>>
      [] op \in GainSetters ->
             <<4, BitOf("set_reference_divider", ds.gain.ref_div),
                  BitOf("set_output_gain", ds.gain.buff_gain)>>

\* C19: reuse of the 3-byte frame buffer never leaks earlier contents onto
\* the wire: for any sequence of operations, every frame handed to the
\* transport's write operation is determined only by the operation, its
\* argument and the current Device Configuration, whatever earlier operations
\* (the response bytes stored by ref_alarm_status included) left in the
\* buffer.
C19_NoStaleBytesWritten ==
    [][\A i \in 1..Len(bus') :
           bus'[i].op = "write" =>
               /\ bus'[i].buf = FrameOf(call'.op, call'.arg, dac_state')
               /\ bus'[i].mosi = bus'[i].buf
               /\ data' = bus'[i].buf]_vars

C19_Witness ==
    /\ was_ones
    /\ call = [op |-> "set_output_level", arg |-> 0]
    /\ Wrote(<<8, 0, 0>>)
    /\ data = <<8, 0, 0>>

====
